---- MODULE Spec2Model ----
(***************************************************************************)
(* Batch sampler of the KY-035 sketch (src/src/main.cpp): the three-state  *)
(* polling state machine of loop(), the averaging of the Sample Window,    *)
(* the change-detection gate and the scrolling Graph History.              *)
(*                                                                         *)
(* Arrays are functions over 0..NUM_READINGS-1, as in the source.          *)
(***************************************************************************)
EXTENDS Integers, Sequences, FiniteSets, TLC

(* ----------------------------- constants ------------------------------ *)

NUM_READINGS == 10

READ_INTERVAL == 50

GRAPH_WIDTH == 150

GRAPH_HEIGHT == 55

\* int minValue = 30: the reading with no voltage on A0
MinValueInit == 30

\* int maxValue = 4095: the reading with 3.3V on A0
MaxValueInit == 4095

(* ------------------------------- bounds ------------------------------- *)

\* width of the modelled millisecond clock (unsigned long), in bits
ClockBits == 7

\* number of AVERAGE cycles the capped specification runs
MaxCycles == 2

\* value at which the bookkeeping counters saturate
MaxCount == 12

ClockMod == 2 ^ ClockBits

\* one clock advance between two loop() calls: a quarter of the clock range
TickStep == 2 ^ (ClockBits - 2)

\* raw samples the sensor delivers in the state-machine specifications
Samples == {100, 101}

\* raw samples of the averaging specification: both ends of the ADC range
AvgSamples == {0, 9, 4095}

\* averages a Graph History of the rendering specification is made of: one
\* below the initial minValue, one above it and the top of the ADC range
GraphSamples == {29, 31, 4095}

Idx == 0 .. (NUM_READINGS - 1)

Zeros == [i \in Idx |-> 0]

VARIABLES
  currentState,            \* State currentState
  lastReadTime,            \* unsigned long lastReadTime
  readings,                \* int readings[NUM_READINGS]
  graphData,               \* int graphData[NUM_READINGS]
  readIndex,               \* int readIndex
  averagedValue,           \* int averagedValue
  previousAveragedValue,   \* int previousAveragedValue
  clock,                   \* value millis() returns
  written,                 \* indices of readings[] written since the last AVERAGE step
  taken,                   \* samples read since the last AVERAGE step, in order
  waits,                   \* SENSOR_READ -> WAIT transitions since the last AVERAGE step
  cycles,                  \* AVERAGE steps executed (saturating)
  renderCount,             \* displayStatus() calls (saturating)
  pushCount,               \* Graph History pushes (saturating)
  pushLog,                 \* the last NUM_READINGS + 1 pushed values, oldest first
  lastRender,              \* what the last displayStatus() call saw
  sinceRead,               \* time elapsed since the last sample (saturating)
  rollMean,                \* Rolling Averager: the integer mean of its 50 samples
  rollResult               \* Rolling Averager: the clamped mean, -1 before the clamp

vars == <<currentState, lastReadTime, readings, graphData, readIndex,
          averagedValue, previousAveragedValue, clock, written, taken, waits,
          cycles, renderCount, pushCount, pushLog, lastRender, sinceRead,
          rollMean, rollResult>>

\* the state of the Rolling Averager, which the Batch Sampler never touches
rolling == <<rollMean, rollResult>>

prog == <<currentState, lastReadTime, readings, graphData, readIndex,
          averagedValue, previousAveragedValue>>

ghost == <<written, taken, waits, cycles, renderCount, pushCount, pushLog,
           lastRender, sinceRead>>

(* ------------------------------ helpers ------------------------------- *)

\* saturating increment of a bookkeeping counter
Inc(n) == IF n < MaxCount THEN n + 1 ELSE n

\* C++ integer division (truncation toward zero)
CDiv(a, b) == IF a >= 0 THEN a \div b ELSE -((-a) \div b)

\* unsigned subtraction at the width of the clock
USub(a, b) == (a - b) % ClockMod

\* the last n elements of a sequence
LastN(s, n) == IF Len(s) <= n THEN s ELSE SubSeq(s, Len(s) - n + 1, Len(s))

(* --------------------------- SENSOR_READ ------------------------------ *)

\* variant: the index is advanced before the store
StoreReading_PreIncrement(r, idx, v) == [r EXCEPT ![idx + 1] = v]

\* variant: the sample is stored from the write index to the end of the window
StoreReading_Fill(r, idx, v) == [i \in DOMAIN r |-> IF i >= idx THEN v ELSE r[i]]

\* readings[readIndex] = analogRead(SENSOR_PIN)
StoreReading(r, idx, v) == [r EXCEPT ![idx] = v]

\* variant: the index is advanced twice
AdvanceIndex_Twice(idx) == idx + 2

\* readIndex++
AdvanceIndex(idx) == idx + 1

\* variant: the window is closed one sample late
StateAfterRead_Late(idx) == IF idx > NUM_READINGS THEN "AVERAGE" ELSE "WAIT"

\* if (readIndex >= NUM_READINGS) AVERAGE else WAIT
StateAfterRead(idx) == IF idx >= NUM_READINGS THEN "AVERAGE" ELSE "WAIT"

SensorRead(v) ==
  /\ currentState = "SENSOR_READ"
  /\ readings' = StoreReading(readings, readIndex, v)
  /\ readIndex' = AdvanceIndex(readIndex)
  /\ lastReadTime' = clock
  /\ currentState' = StateAfterRead(readIndex')
  /\ written' = written \cup {readIndex}
  /\ taken' = Append(taken, v)
  /\ waits' = IF currentState' = "WAIT" THEN waits + 1 ELSE waits
  /\ sinceRead' = 0
  /\ UNCHANGED <<graphData, averagedValue, previousAveragedValue, clock,
                 cycles, renderCount, pushCount, pushLog, lastRender>>
  /\ UNCHANGED rolling

(* ------------------------------- WAIT --------------------------------- *)

\* variant: the deadline is computed by an addition that wraps
IntervalElapsed_Deadline(currentTime, last) ==
  currentTime >= (last + READ_INTERVAL) % ClockMod

\* variant: the comparison is the wrong way round
IntervalElapsed_Reversed(currentTime, last) ==
  USub(currentTime, last) <= READ_INTERVAL

\* variant: the difference is taken without wrapping
IntervalElapsed_NoWrap(currentTime, last) == currentTime - last >= READ_INTERVAL

\* currentTime - lastReadTime >= READ_INTERVAL
IntervalElapsed(currentTime, last) == USub(currentTime, last) >= READ_INTERVAL

Wait ==
  /\ currentState = "WAIT"
  /\ currentState' = IF IntervalElapsed(clock, lastReadTime)
                     THEN "SENSOR_READ" ELSE "WAIT"
  /\ UNCHANGED <<lastReadTime, readings, graphData, readIndex, averagedValue,
                 previousAveragedValue, clock>>
  /\ UNCHANGED ghost
  /\ UNCHANGED rolling

(* ------------------------------ AVERAGE ------------------------------- *)

\* for (i = 0; i < NUM_READINGS; i++) sum += readings[i];
RECURSIVE SumReadings(_, _)
SumReadings(r, n) == IF n = 0 THEN 0 ELSE SumReadings(r, n - 1) + r[n - 1]

\* variant: the mean is rounded to the nearest integer
AverageOf_Rounded(r) ==
  CDiv(SumReadings(r, NUM_READINGS) + NUM_READINGS \div 2, NUM_READINGS)

\* averagedValue = sum / NUM_READINGS
AverageOf(r) == CDiv(SumReadings(r, NUM_READINGS), NUM_READINGS)

\* variant: the display is updated in every cycle
ValueChanged_Always(avg, prev) == TRUE

\* variant: only a change by more than one count is displayed
ValueChanged_Threshold(avg, prev) == avg - prev > 1 \/ prev - avg > 1

\* if (averagedValue != previousAveragedValue)
ValueChanged(avg, prev) == avg # prev

\* variant: the shift stops one entry early
RECURSIVE ShiftLeft_Short(_, _)
ShiftLeft_Short(g, i) ==
  IF i >= NUM_READINGS - 2 THEN g
  ELSE ShiftLeft_Short([g EXCEPT ![i] = g[i + 1]], i + 1)

\* for (i = 0; i < NUM_READINGS - 1; i++) graphData[i] = graphData[i + 1];
\* h is the array after the body of the loop
RECURSIVE ShiftLeft(_, _)
ShiftLeft(g, i) ==
  IF i >= NUM_READINGS - 1 THEN g
  ELSE CHOOSE r \in {ShiftLeft(h, i + 1) :
                       h \in {[g EXCEPT ![i] = g[i + 1]]}} : TRUE

\* variant: the new value overwrites the newest entry without a shift
PushGraph_NoShift(g, v) == [g EXCEPT ![NUM_READINGS - 1] = v]

\* variant: the new value is not stored after the shift
PushGraph_NoStore(g, v) == ShiftLeft(g, 0)

\* the shift followed by graphData[NUM_READINGS - 1] = averagedValue
PushGraph(g, v) == [ShiftLeft(g, 0) EXCEPT ![NUM_READINGS - 1] = v]

\* the loop of drawGraph() that determines minValue and maxValue, from entry i;
\* lo and hi are the values of the two variables after the body of the loop
RECURSIVE ScanBounds(_, _, _, _)
ScanBounds(g, i, minValue, maxValue) ==
  IF i >= NUM_READINGS THEN [minValue |-> minValue, maxValue |-> maxValue]
  ELSE CHOOSE b \in {ScanBounds(g, i + 1, lo, hi) :
                       lo \in {IF g[i] < minValue THEN g[i] ELSE minValue},
                       hi \in {IF g[i] > maxValue THEN g[i] ELSE maxValue}} : TRUE

\* int minValue = 30, maxValue = 4095, then the loop
ScaleBounds(g) == ScanBounds(g, 0, MinValueInit, MaxValueInit)

\* Arduino map(): (x - in_min) * (out_max - out_min) / (in_max - in_min) + out_min
Map(x, inMin, inMax, outMin, outMax) ==
  CDiv((x - inMin) * (outMax - outMin), inMax - inMin) + outMin

\* the plot loop of drawGraph(): the vertical offset (graphY - y) of the point
\* of every entry, for scale bounds b and a vertical extent
Plot(g, b, extent) ==
  [minValue |-> b.minValue,
   maxValue |-> b.maxValue,
   offset   |-> [i \in Idx |-> Map(g[i], b.minValue, b.maxValue, 0, extent)]]

\* drawGraph() for a vertical extent: the scale bounds b, then the plot
Scaled(g, extent) ==
  CHOOSE d \in {Plot(g, b, extent) : b \in {ScaleBounds(g)}} : TRUE

\* variant: the polyline is scaled to the width of the plot area
DrawGraph_Width(g) == CHOOSE d \in {Scaled(h, GRAPH_WIDTH) : h \in {g}} : TRUE

\* drawGraph() on the Graph History h = g
DrawGraph(g) == CHOOSE d \in {Scaled(h, GRAPH_HEIGHT) : h \in {g}} : TRUE

\* variant: the value printed is the previous average
DisplayStatus_Stale(sensorValue, g, prev) ==
  [value |-> prev, graph |-> g, prev |-> prev, drawn |-> DrawGraph(g)]

\* displayStatus(sensorValue): the value printed, the Graph History drawGraph()
\* reads, the previousAveragedValue in force during the call and what
\* drawGraph() plots
DisplayStatus(sensorValue, g, prev) ==
  [value |-> sensorValue, graph |-> g, prev |-> prev, drawn |-> DrawGraph(g)]

\* variant: the machine waits after an AVERAGE cycle
StateAfterAverage_Wait == "WAIT"

\* currentState = State::SENSOR_READ at the end of the AVERAGE case
StateAfterAverage == "SENSOR_READ"

Average ==
  LET avg == AverageOf(readings)
      g   == PushGraph(graphData, avg)
  IN  /\ currentState = "AVERAGE"
      /\ averagedValue' = avg
      /\ IF ValueChanged(avg, previousAveragedValue)
         THEN /\ graphData' = g
              /\ lastRender' = DisplayStatus(avg, g, previousAveragedValue)
              /\ previousAveragedValue' = avg
              /\ renderCount' = Inc(renderCount)
              /\ pushCount' = Inc(pushCount)
              /\ pushLog' = LastN(Append(pushLog, avg), NUM_READINGS + 1)
         ELSE UNCHANGED <<graphData, lastRender, previousAveragedValue,
                          renderCount, pushCount, pushLog>>
      /\ readIndex' = 0
      /\ currentState' = StateAfterAverage
      /\ written' = {}
      /\ taken' = <<>>
      /\ waits' = 0
      /\ cycles' = Inc(cycles)
      /\ UNCHANGED <<lastReadTime, readings, clock, sinceRead>>
      /\ UNCHANGED rolling

(* ------------------------------ millis() ------------------------------ *)

\* the millisecond clock advances between two loop() calls and wraps
Tick ==
  /\ clock' = (clock + TickStep) % ClockMod
  /\ sinceRead' = IF sinceRead + TickStep >= ClockMod
                  THEN ClockMod ELSE sinceRead + TickStep
  /\ UNCHANGED prog
  /\ UNCHANGED <<written, taken, waits, cycles, renderCount, pushCount,
                 pushLog, lastRender>>
  /\ UNCHANGED rolling

(* --------------------------- specifications --------------------------- *)

Init ==
  /\ currentState = "SENSOR_READ"
  /\ lastReadTime = 0
  /\ readings = Zeros
  /\ graphData = Zeros
  /\ readIndex = 0
  /\ averagedValue = 0
  /\ previousAveragedValue = -1
  /\ clock = 0
  /\ written = {}
  /\ taken = <<>>
  /\ waits = 0
  /\ cycles = 0
  /\ renderCount = 0
  /\ pushCount = 0
  /\ pushLog = <<>>
  /\ lastRender = DisplayStatus(-1, Zeros, -1)
  /\ sinceRead = 0
  /\ rollMean = 0
  /\ rollResult = -1

\* the first MaxCycles Sample Windows after power-on: one call of loop() with
\* the sensor free to deliver any sample, or an advance of the clock
Next ==
  \/ cycles < MaxCycles /\ \E v \in Samples : SensorRead(v)
  \/ cycles < MaxCycles /\ Wait
  \/ cycles < MaxCycles /\ Average
  \/ Tick

Spec == Init /\ [][Next]_vars

\* one call of loop() while the field at the sensor is steady within a window:
\* every sample of a window equals the first sample of that window
SteadyLoop ==
  \/ \E v \in Samples :
        /\ readIndex > 0 => v = readings[readIndex - 1]
        /\ SensorRead(v)
  \/ Wait
  \/ Average

\* the machine running forever under a steady field
SteadyNext ==
  \/ SteadyLoop
  \/ Tick

SteadySpec == Init /\ [][SteadyNext]_vars

\* loop() is called again and again, far more often than the clock wraps, and
\* the clock keeps advancing
LiveSpec == SteadySpec /\ SF_vars(SteadyLoop) /\ WF_vars(Tick)

\* the end of the first Sample Window after power-on, for every window content
AvgInit ==
  /\ currentState = "AVERAGE"
  /\ readings \in [Idx -> AvgSamples]
  /\ readIndex = NUM_READINGS
  /\ clock = TickStep
  /\ lastReadTime = clock
  /\ graphData = Zeros
  /\ averagedValue = 0
  /\ previousAveragedValue = -1
  /\ written = Idx
  /\ taken = [k \in 1 .. NUM_READINGS |-> readings[k - 1]]
  /\ waits = NUM_READINGS - 1
  /\ cycles = 0
  /\ renderCount = 0
  /\ pushCount = 0
  /\ pushLog = <<>>
  /\ lastRender = DisplayStatus(-1, Zeros, -1)
  /\ sinceRead = 0
  /\ rollMean = 0
  /\ rollResult = -1

AvgNext == Average

AvgSpec == AvgInit /\ [][AvgNext]_vars

\* a Graph History the program can have built: the initial zeros that are
\* left, then pushed averages of which no two neighbours are equal
ReachableHistory(g) ==
  \E k \in 0 .. NUM_READINGS :
    /\ \A i \in Idx : i < k => g[i] = 0
    /\ \A i \in Idx : i >= k => g[i] \in GraphSamples
    /\ \A i \in Idx : i >= k /\ i + 1 < NUM_READINGS => g[i] # g[i + 1]

\* the number of pushes behind such a history
PushesOf(g) == Cardinality({i \in Idx : g[i] # 0})

\* the end of a Sample Window read under a steady field, after up to ten
\* cycles that each pushed an average
DrawInit ==
  /\ currentState = "AVERAGE"
  /\ graphData \in {g \in [Idx -> {0} \cup GraphSamples] : ReachableHistory(g)}
  /\ \E level \in {0} \cup GraphSamples : readings = [i \in Idx |-> level]
  /\ readIndex = NUM_READINGS
  /\ clock = TickStep
  /\ lastReadTime = clock
  /\ LET n == PushesOf(graphData)
         newest == graphData[NUM_READINGS - 1]
     IN  /\ averagedValue = IF n = 0 THEN 0 ELSE newest
         /\ previousAveragedValue = IF n = 0 THEN -1 ELSE newest
         /\ cycles = n
         /\ renderCount = n
         /\ pushCount = n
         /\ pushLog = [j \in 1 .. n |-> graphData[NUM_READINGS - n + j - 1]]
         /\ lastRender =
              IF n = 0 THEN DisplayStatus(-1, Zeros, -1)
              ELSE DisplayStatus(newest, graphData,
                                 IF n = 1 THEN -1
                                 ELSE graphData[NUM_READINGS - 2])
  /\ written = Idx
  /\ taken = [k \in 1 .. NUM_READINGS |-> readings[k - 1]]
  /\ waits = NUM_READINGS - 1
  /\ sinceRead = 0
  /\ rollMean = 0
  /\ rollResult = -1

DrawNext == Average

DrawSpec == DrawInit /\ [][DrawNext]_vars

(* -------------------------- Rolling Averager -------------------------- *)

\* means the Rolling Averager can compute from samples in [0,4095]
RollMeans == 0 .. 4095

\* variant: the floor itself is not clamped
Clamp_Strict(m) == IF m < 30 THEN 0 ELSE m

\* step 3 of the Rolling Averager: a mean at or below the no-field floor of 30
\* is forced to 0
Clamp(m) == IF m <= 30 THEN 0 ELSE m

\* the Rolling Averager clamps the mean it has computed
ClampMean ==
  /\ rollResult = -1
  /\ rollResult' = Clamp(rollMean)
  /\ UNCHANGED <<rollMean, clock>>
  /\ UNCHANGED prog
  /\ UNCHANGED ghost

\* the Rolling Averager has computed a mean and not yet clamped it
ClampInit ==
  /\ currentState = "SENSOR_READ"
  /\ lastReadTime = 0
  /\ readings = Zeros
  /\ graphData = Zeros
  /\ readIndex = 0
  /\ averagedValue = 0
  /\ previousAveragedValue = -1
  /\ clock = 0
  /\ written = {}
  /\ taken = <<>>
  /\ waits = 0
  /\ cycles = 0
  /\ renderCount = 0
  /\ pushCount = 0
  /\ pushLog = <<>>
  /\ lastRender = DisplayStatus(-1, Zeros, -1)
  /\ sinceRead = 0
  /\ rollMean \in RollMeans
  /\ rollResult = -1

ClampNext == ClampMean

ClampSpec == ClampInit /\ [][ClampNext]_vars

(* ============================== claims ================================ *)

\* a loop() call that executed the AVERAGE case
AverageStep == currentState = "AVERAGE" /\ taken' = <<>>

\* a loop() call that executed the SENSOR_READ case
ReadStep == currentState = "SENSOR_READ" /\ taken' # taken

\* the sum of a window, element by element over the index set
RECURSIVE WindowSum(_, _)
WindowSum(r, S) ==
  IF S = {} THEN 0
  ELSE LET i == CHOOSE j \in S : TRUE IN r[i] + WindowSum(r, S \ {i})

(* ------------------------------- C1 ----------------------------------- *)

\* C1: for every Sample Window of 10 readings in [0,4095], the AVERAGE step
\* sets averagedValue to floor(sum of the readings / 10), and
\* 0 <= averagedValue <= 4095.
C1_AverageIsFloorOfMean ==
  [][AverageStep =>
       LET sum == WindowSum(readings, Idx)
       IN  /\ NUM_READINGS * averagedValue' <= sum
           /\ sum < NUM_READINGS * averagedValue' + NUM_READINGS
           /\ averagedValue' >= 0
           /\ averagedValue' <= 4095]_vars

\* a window whose sum is no multiple of 10 has been averaged to a value > 0
C1_Witness ==
  /\ cycles = 1
  /\ WindowSum(readings, Idx) % NUM_READINGS # 0
  /\ averagedValue > 0
  /\ averagedValue < 4095

(* ------------------------------- C2 ----------------------------------- *)

\* C2 as stated: the machine is in AVERAGE after exactly N SENSOR_READ -> WAIT
\* transitions of the window.
C2_Original == currentState = "AVERAGE" => waits = NUM_READINGS

\* C2 (amended): the machine is in AVERAGE exactly after N SENSOR_READ steps
\* of the window, of which the first N - 1 went to WAIT and the N-th went
\* straight to AVERAGE; leaving AVERAGE resets readIndex to 0.
C2_Amended ==
  [][/\ currentState' = "AVERAGE" =>
          Len(taken') = NUM_READINGS /\ waits' = NUM_READINGS - 1
     /\ Len(taken') = NUM_READINGS => currentState' = "AVERAGE"
     /\ currentState = "AVERAGE" /\ currentState' # "AVERAGE" =>
          readIndex' = 0 /\ currentState' = "SENSOR_READ"]_vars

\* the second window has been read completely and the first one left AVERAGE
C2_Witness ==
  /\ currentState = "AVERAGE"
  /\ cycles = 1
  /\ waits = NUM_READINGS - 1

(* ------------------------------- C3 ----------------------------------- *)

\* C3: when an AVERAGE cycle computes the same average as the cycle before
\* it, the second cycle does not render, so the two cycles together render at
\* most once.
C3_EqualAverageNotRendered ==
  [][/\ AverageStep => renderCount' <= renderCount + 1
     /\ AverageStep /\ cycles >= 1 /\ averagedValue' = averagedValue =>
          renderCount' = renderCount /\ lastRender' = lastRender]_vars

\* two cycles with equal averages: one render in all
C3_Witness ==
  /\ cycles = 2
  /\ renderCount = 1
  /\ averagedValue = previousAveragedValue

(* ------------------------------- C4 ----------------------------------- *)

\* C4: Graph History is a FIFO of capacity 10: a push evicts the oldest
\* entry, moves the other nine one position toward index 0 in order and puts
\* the new value at index 9; after pushes v1..v11, graphData = [v2..v11].
C4_GraphHistoryFifo ==
  [][/\ pushCount' # pushCount =>
          /\ \A i \in 0 .. (NUM_READINGS - 2) : graphData'[i] = graphData[i + 1]
          /\ graphData'[NUM_READINGS - 1] = averagedValue'
     /\ Len(pushLog') = NUM_READINGS + 1 =>
          \A i \in Idx : graphData'[i] = pushLog'[i + 2]]_vars

\* eleven values have been pushed
C4_Witness ==
  /\ pushCount = NUM_READINGS + 1
  /\ Len(pushLog) = NUM_READINGS + 1
  /\ pushLog[1] # pushLog[2]

(* ------------------------------- C5 ----------------------------------- *)

\* C5: the machine leaves WAIT for SENSOR_READ only when
\* currentTime - lastReadTime >= READ_INTERVAL and stays in WAIT otherwise;
\* two successive samples with a WAIT between them are at least
\* READ_INTERVAL apart.
C5_WaitGate ==
  [][/\ currentState = "WAIT" /\ currentState' = "SENSOR_READ" =>
          (clock - lastReadTime) % ClockMod >= READ_INTERVAL
     /\ currentState = "WAIT" /\ (clock - lastReadTime) % ClockMod < READ_INTERVAL =>
          currentState' = "WAIT"
     /\ currentState = "WAIT" => currentState' \in {"WAIT", "SENSOR_READ"}
     /\ ReadStep /\ readIndex > 0 => sinceRead >= READ_INTERVAL]_vars

\* a sample is about to be taken after a WAIT phase, and the clock has
\* wrapped since the sample before it
C5_Witness ==
  /\ currentState = "SENSOR_READ"
  /\ readIndex > 0
  /\ clock < lastReadTime

(* ------------------------------- C6 ----------------------------------- *)

\* C6: an AVERAGE step whose average differs from previousAveragedValue pushes
\* the average, then renders it (graphData[9] already holds it, the previous
\* value is still the old one), then sets previousAveragedValue; an AVERAGE
\* step whose average equals previousAveragedValue does none of the three;
\* renders and pushes are equally many.
C6_ChangeGate ==
  [][/\ AverageStep /\ averagedValue' # previousAveragedValue =>
          /\ pushCount' = pushCount + 1
          /\ graphData'[NUM_READINGS - 1] = averagedValue'
          /\ renderCount' = renderCount + 1
          /\ lastRender'.value = averagedValue'
          /\ lastRender'.graph = graphData'
          /\ lastRender'.graph[NUM_READINGS - 1] = averagedValue'
          /\ lastRender'.prev = previousAveragedValue
          /\ previousAveragedValue' = averagedValue'
     /\ AverageStep /\ averagedValue' = previousAveragedValue =>
          UNCHANGED <<graphData, previousAveragedValue, renderCount,
                      pushCount, lastRender>>
     /\ renderCount' = pushCount']_vars

\* two cycles with different averages: both pushed and rendered
C6_Witness ==
  /\ cycles = 2
  /\ renderCount = 2
  /\ graphData[NUM_READINGS - 1] = averagedValue
  /\ graphData[NUM_READINGS - 2] > 0

(* ------------------------------- C7 ----------------------------------- *)

\* C7: in AVERAGE, readIndex = 10 and all ten entries of readings[] were
\* written by SENSOR_READ steps since the last AVERAGE step; always
\* 0 <= readIndex <= 10, and SENSOR_READ writes at an index in 0..9.
C7_WindowComplete ==
  /\ readIndex >= 0
  /\ readIndex <= NUM_READINGS
  /\ written \subseteq Idx
  /\ currentState = "SENSOR_READ" => readIndex \in Idx
  /\ currentState = "AVERAGE" =>
       /\ readIndex = NUM_READINGS
       /\ written = Idx
       /\ Len(taken) = NUM_READINGS
       /\ \A i \in Idx : readings[i] = taken[i + 1]

\* the second window is complete and none of its entries is the first average
C7_Witness ==
  /\ currentState = "AVERAGE"
  /\ cycles = 1
  /\ \A i \in Idx : readings[i] # previousAveragedValue

(* ------------------------------- C8 ----------------------------------- *)

\* C8: SENSOR_READ stores the sample at the current write index and advances
\* the index by one, so the k-th sample of a window is in readings[k-1]; it
\* goes to AVERAGE iff the index has reached 10, to WAIT otherwise.
C8_SensorReadStep ==
  [][ReadStep =>
       /\ readIndex' = readIndex + 1
       /\ Len(taken') = readIndex'
       /\ readings'[readIndex] = taken'[Len(taken')]
       /\ \A k \in 1 .. Len(taken') : readings'[k - 1] = taken'[k]
       /\ currentState' = "AVERAGE" <=> readIndex' = NUM_READINGS
       /\ currentState' = "WAIT" <=> readIndex' # NUM_READINGS]_vars

\* a window of alternating samples has been stored
C8_Witness ==
  /\ currentState = "AVERAGE"
  /\ Len(taken) = NUM_READINGS
  /\ \A i \in 0 .. (NUM_READINGS - 2) : readings[i] # readings[i + 1]

(* ------------------------------- C9 ----------------------------------- *)

\* C9: the machine starts in SENSOR_READ and never terminates: with loop()
\* called again and again and the clock advancing, AVERAGE is reached
\* infinitely often, every AVERAGE step leads to SENSOR_READ, and a loop()
\* call is possible in every reachable state.
C9_RunsForever ==
  /\ currentState = "SENSOR_READ"
  /\ []<>(currentState = "AVERAGE")
  /\ [][currentState = "AVERAGE" /\ currentState' # "AVERAGE" =>
          currentState' = "SENSOR_READ"]_vars
  /\ (currentState = "AVERAGE") ~> (currentState = "SENSOR_READ")
  /\ [](ENABLED SteadyLoop)

\* the machine is in AVERAGE again after many cycles
C9_Witness == currentState = "AVERAGE" /\ cycles = MaxCount

(* ------------------------------- C10 ---------------------------------- *)

\* C10: Graph History always has exactly 10 entries, all zero at startup;
\* after k < 10 pushes the first 10 - k entries are the initial zeros and the
\* last k entries are the pushed averages in push order.
C10_ColdStart ==
  /\ DOMAIN graphData = Idx
  /\ pushCount = 0 => graphData = Zeros
  /\ pushCount < NUM_READINGS =>
       /\ Len(pushLog) = pushCount
       /\ \A i \in 0 .. (NUM_READINGS - 1 - pushCount) : graphData[i] = 0
       /\ \A j \in 1 .. pushCount :
            graphData[NUM_READINGS - pushCount + j - 1] = pushLog[j]

\* nine pushes: one initial zero is left in front of nine averages
C10_Witness ==
  /\ pushCount = NUM_READINGS - 1
  /\ graphData[0] = 0
  /\ \A i \in 1 .. (NUM_READINGS - 1) : graphData[i] > 0

(* ------------------------------- C11 ---------------------------------- *)

\* the smallest and the largest entry of a Graph History
MinOf(g) == CHOOSE m \in {g[i] : i \in Idx} : \A i \in Idx : m <= g[i]

MaxOf(g) == CHOOSE m \in {g[i] : i \in Idx} : \A i \in Idx : m >= g[i]

\* C11: the scale bounds drawGraph uses are exactly the minimum and the
\* maximum of the Graph History, so that these map to offset 0 and to offset
\* GRAPH_HEIGHT.
C11_ScaleIsMinMaxOfHistory ==
  renderCount >= 1 =>
    /\ lastRender.drawn.minValue = MinOf(lastRender.graph)
    /\ lastRender.drawn.maxValue = MaxOf(lastRender.graph)

(* ------------------------------- C18 ---------------------------------- *)

Stalled == currentState = "WAIT" /\ clock = lastReadTime

\* C12: while the clock does not advance after a sample, the machine stays in
\* WAIT: no further sample is read and no AVERAGE step occurs.
C12_StalledClockStalls ==
  [][Stalled /\ clock' = clock =>
       /\ Stalled'
       /\ UNCHANGED <<readings, readIndex, taken, cycles, averagedValue>>]_vars

\* the machine waits in the middle of a window at the instant of its last sample
C12_Witness ==
  /\ currentState = "WAIT"
  /\ clock = lastReadTime
  /\ sinceRead = 0
  /\ readIndex = 5

(* ------------------------------- C14 ---------------------------------- *)

\* C14: the first AVERAGE step after startup renders and pushes whatever the
\* readings are, also when the first average is 0: previousAveragedValue is -1
\* then and no average is negative.
C14_FirstAverageRenders ==
  [][AverageStep /\ cycles = 0 =>
       /\ previousAveragedValue = -1
       /\ averagedValue' >= 0
       /\ renderCount' = 1
       /\ pushCount' = 1
       /\ lastRender'.value = averagedValue'
       /\ graphData'[NUM_READINGS - 1] = averagedValue'
       /\ previousAveragedValue' = averagedValue']_vars

\* the first window was all zero and has been rendered
C14_Witness ==
  /\ cycles = 1
  /\ averagedValue = 0
  /\ renderCount = 1
  /\ previousAveragedValue = 0

(* ------------------------------- C15 ---------------------------------- *)

\* C15: after the first render previousAveragedValue = graphData[9], and two
\* adjacent history entries that were both pushed are never equal.
C15_NoRepeatedAverage ==
  renderCount >= 1 =>
    /\ previousAveragedValue = graphData[NUM_READINGS - 1]
    /\ \A i \in 0 .. (NUM_READINGS - 2) :
         i >= NUM_READINGS - pushCount => graphData[i] # graphData[i + 1]

\* the history is full of pushed values and a cycle with an unchanged average
\* has passed
C15_Witness ==
  /\ pushCount = NUM_READINGS
  /\ cycles > pushCount
  /\ graphData[0] # 0

(* ------------------------------- C16 ---------------------------------- *)

\* C16: AVERAGE is entered straight from the last SENSOR_READ of a window and
\* left straight for SENSOR_READ, with no WAIT and no clock check between, so
\* the first sample of a window may follow the last one of the window before
\* in less than READ_INTERVAL; within a window there is exactly one WAIT phase
\* between two successive samples.
C16_NoGateAcrossWindows ==
  [][/\ currentState' \in {"SENSOR_READ", "WAIT"} => waits' = readIndex'
     /\ currentState' = "AVERAGE" => waits' = NUM_READINGS - 1
     /\ currentState # "AVERAGE" /\ currentState' = "AVERAGE" =>
          ReadStep /\ readIndex' = NUM_READINGS
     /\ AverageStep =>
          currentState' = "SENSOR_READ" /\ sinceRead' = sinceRead
     /\ ReadStep /\ readIndex > 0 => waits = Len(taken)
     /\ ReadStep /\ readIndex = 0 => waits = 0]_vars

\* the first sample of the second window is about to be taken at the instant
\* of the last sample of the first window
C16_Witness ==
  /\ currentState = "SENSOR_READ"
  /\ readIndex = 0
  /\ cycles = 1
  /\ sinceRead = 0
  /\ clock = lastReadTime

(* ------------------------------- C17 ---------------------------------- *)

\* C17: with the difference taken modulo 2^w, the machine can leave WAIT
\* exactly when the time elapsed since the last sample is >= READ_INTERVAL, for
\* elapsed times below 2^w, also when the clock has wrapped in between.
C17_GateAcrossWrap ==
  currentState = "WAIT" /\ sinceRead < ClockMod =>
    /\ (clock - lastReadTime) % ClockMod = sinceRead
    /\ (ENABLED (Wait /\ currentState' = "SENSOR_READ")) <=>
         sinceRead >= READ_INTERVAL

\* the clock has wrapped since the last sample and the interval has elapsed
C17_Witness ==
  /\ currentState = "WAIT"
  /\ clock < lastReadTime
  /\ sinceRead >= READ_INTERVAL
  /\ sinceRead < ClockMod

(* ------------------------------- C19 ---------------------------------- *)

\* C19: a WAIT step changes nothing but currentState; a SENSOR_READ step
\* changes only readings[readIndex], readIndex, lastReadTime and currentState;
\* an AVERAGE step leaves readings[] and lastReadTime alone; the renderer runs
\* in AVERAGE steps only.
C19_FrameConditions ==
  [][/\ currentState = "WAIT" =>
          UNCHANGED <<readings, readIndex, lastReadTime, averagedValue,
                      graphData, previousAveragedValue>>
     /\ ReadStep =>
          /\ UNCHANGED <<averagedValue, graphData, previousAveragedValue>>
          /\ \A j \in Idx : j # readIndex => readings'[j] = readings[j]
     /\ AverageStep => UNCHANGED <<readings, lastReadTime>>
     /\ renderCount' # renderCount \/ lastRender' # lastRender =>
          AverageStep]_vars

\* in the second window, after steps of all three kinds, with entries of the
\* first window still in place
C19_Witness ==
  /\ cycles = 1
  /\ currentState = "WAIT"
  /\ readIndex = 3
  /\ readings[0] # readings[NUM_READINGS - 1]

(* ------------------------------- C13 ---------------------------------- *)

\* C13: the noise-floor clamp of the Rolling Averager yields 0 for every mean
\* m <= 30 and m itself for every other mean.
C13_NoiseFloorClamp ==
  rollResult # -1 =>
    /\ rollMean <= 30 => rollResult = 0
    /\ rollMean > 30 => rollResult = rollMean

\* the mean at the floor has been clamped to 0
C13_Witness == rollMean = 30 /\ rollResult = 0

====
